---------------------------- MODULE Spec2Model ----------------------------
(***************************************************************************)
(* The CHIP-8 core of chip8_core/src/lib.rs as a state machine.  The       *)
(* state is the Machine struct, field by field, plus the state of the      *)
(* hosting process (running, exited with status 5, or panicked).  One      *)
(* action per public method: load, reset, tick_timers, keypress, tick.     *)
(*                                                                         *)
(* The two large arrays are held by their nonzero entries: ram is the      *)
(* function from the addresses of the nonzero bytes to those bytes (every  *)
(* other address in 0..RAM_SIZE-1 holds 0), screen is the set of the       *)
(* indices of the cells that are on.  Each value of [u8; RAM_SIZE] and of  *)
(* [bool; SCREEN_WIDTH * SCREEN_HEIGHT] has exactly one such form.         *)
(***************************************************************************)
EXTENDS Integers, Sequences, FiniteSets, TLC

VARIABLES pc, ram, screen, v_reg, i_reg, stack, keys, dt, st, process, calls

\* The Machine's fields and the process state; calls is a history variable
\* (the call sites still open), read by no operation.
vars == <<pc, ram, screen, v_reg, i_reg, stack, keys, dt, st, process, calls>>

(***************************************************************************)
(* Program constants.                                                      *)
(***************************************************************************)
SCREEN_WIDTH == 64
SCREEN_HEIGHT == 32
START_ADDR == 512
RAM_SIZE == 4096
NUM_REGS == 16
STACK_SIZE == 16
NUM_KEYS == 16
FONTSET_SIZE == 80

FONTSET ==
    << 240, 144, 144, 144, 240,
       32, 96, 32, 32, 112,
       240, 16, 240, 128, 240,
       240, 16, 240, 16, 240,
       144, 144, 240, 16, 16,
       240, 128, 240, 16, 240,
       240, 128, 240, 144, 240,
       240, 16, 32, 64, 64,
       240, 144, 240, 144, 240,
       240, 144, 240, 16, 240,
       240, 144, 240, 144, 144,
       224, 144, 224, 144, 224,
       240, 128, 128, 128, 240,
       224, 144, 144, 144, 224,
       240, 128, 240, 128, 240,
       240, 128, 240, 128, 128 >>

\* Widths of the integer types.
U8 == 256
U16 == 65536

(***************************************************************************)
(* Bounds of the model.                                                    *)
(***************************************************************************)
\* random::<u8>() draws from 0..RandSpan-1 and from 256-RandSpan..255.
RandSpan == 2
\* keypress is called with the indices 0..MaxKey.
MaxKey == 1
\* tick is explored while the call stack holds at most MaxDepth frames.
MaxDepth == 17
\* Number of tick_timers calls followed in the n-call timer property.
MaxTimerCalls == 3

RandomBytes == (0 .. (RandSpan - 1)) \cup ((U8 - RandSpan) .. (U8 - 1))

(***************************************************************************)
(* Bit arithmetic on bytes.                                                *)
(***************************************************************************)
Pow2(k) == 2 ^ k
Bit(v, k) == (v \div Pow2(k)) % 2

\* One bit of &, | and ^.
and_bit(p, q) == p * q
or_bit(p, q) == IF p + q > 0 THEN 1 ELSE 0
xor_bit(p, q) == (p + q) % 2

\* a & b, a | b and a ^ b on u8, bit by bit.
BitAnd(a, b) ==
        1 * and_bit(Bit(a, 0), Bit(b, 0))
      + 2 * and_bit(Bit(a, 1), Bit(b, 1))
      + 4 * and_bit(Bit(a, 2), Bit(b, 2))
      + 8 * and_bit(Bit(a, 3), Bit(b, 3))
      + 16 * and_bit(Bit(a, 4), Bit(b, 4))
      + 32 * and_bit(Bit(a, 5), Bit(b, 5))
      + 64 * and_bit(Bit(a, 6), Bit(b, 6))
      + 128 * and_bit(Bit(a, 7), Bit(b, 7))

BitOr(a, b) ==
        1 * or_bit(Bit(a, 0), Bit(b, 0))
      + 2 * or_bit(Bit(a, 1), Bit(b, 1))
      + 4 * or_bit(Bit(a, 2), Bit(b, 2))
      + 8 * or_bit(Bit(a, 3), Bit(b, 3))
      + 16 * or_bit(Bit(a, 4), Bit(b, 4))
      + 32 * or_bit(Bit(a, 5), Bit(b, 5))
      + 64 * or_bit(Bit(a, 6), Bit(b, 6))
      + 128 * or_bit(Bit(a, 7), Bit(b, 7))

BitXor(a, b) ==
        1 * xor_bit(Bit(a, 0), Bit(b, 0))
      + 2 * xor_bit(Bit(a, 1), Bit(b, 1))
      + 4 * xor_bit(Bit(a, 2), Bit(b, 2))
      + 8 * xor_bit(Bit(a, 3), Bit(b, 3))
      + 16 * xor_bit(Bit(a, 4), Bit(b, 4))
      + 32 * xor_bit(Bit(a, 5), Bit(b, 5))
      + 64 * xor_bit(Bit(a, 6), Bit(b, 6))
      + 128 * xor_bit(Bit(a, 7), Bit(b, 7))

(***************************************************************************)
(* Arrays held by their nonzero entries.                                   *)
(***************************************************************************)
\* r[a] for a in 0..RAM_SIZE-1.
byte_at(r, a) == IF a \in DOMAIN r THEN r[a] ELSE 0

\* r after r[a] = v.
set_byte(r, a, v) ==
    IF v = 0 THEN [b \in DOMAIN r \ {a} |-> r[b]]
    ELSE [b \in DOMAIN r \cup {a} |-> IF b = a THEN v ELSE r[b]]

\* r after r[start .. start + len(data)].copy_from_slice(data).
copy_from_slice(r, start, data) ==
    LET range == start .. (start + Len(data) - 1)
        set == {a \in range : data[a - start + 1] # 0}
    IN  [b \in (DOMAIN r \ range) \cup set |->
            IF b \in range THEN data[b - start + 1] ELSE r[b]]

\* [0; RAM_SIZE] and [false; SCREEN_WIDTH * SCREEN_HEIGHT].
zero_ram == [a \in {} |-> 0]
blank_screen == {}

\* scr[index], and scr after scr[index] ^= true.
pixel(scr, index) == index \in scr

\* scr[index] |= true in place of ^=: a pixel is set, never cleared.
toggle_sets(scr, index) == scr \cup {index}

toggle(scr, index) == IF index \in scr THEN scr \ {index} ELSE scr \cup {index}

(***************************************************************************)
(* The machine as a record, so that the methods are functions on it.       *)
(***************************************************************************)
State ==
    [pc |-> pc, ram |-> ram, screen |-> screen, v_reg |-> v_reg, i_reg |-> i_reg,
     stack |-> stack, keys |-> keys, dt |-> dt, st |-> st, process |-> process]

\* Machine::new: every field zeroed, pc at START_ADDR, the glyph table installed.
new ==
    [pc |-> START_ADDR,
     ram |-> copy_from_slice(zero_ram, 0, FONTSET),
     screen |-> blank_screen,
     v_reg |-> [r \in 0 .. (NUM_REGS - 1) |-> 0],
     i_reg |-> 0,
     stack |-> << >>,
     keys |-> [k \in 0 .. (NUM_KEYS - 1) |-> FALSE],
     dt |-> 0,
     st |-> 0,
     process |-> "running"]

\* A panic of the running thread (index out of bounds, checked overflow).
panic(m) == [m EXCEPT !.process = "panic"]

\* load that copies the part of data that fits in place of failing.
load_truncating(m, data) ==
    IF START_ADDR + Len(data) > RAM_SIZE
    THEN [m EXCEPT !.ram = copy_from_slice(m.ram, START_ADDR,
                                           SubSeq(data, 1, RAM_SIZE - START_ADDR))]
    ELSE [m EXCEPT !.ram = copy_from_slice(m.ram, START_ADDR, data)]

\* load onto a cleared program area: the bytes past the image become 0.
load_zero_fills(m, data) ==
    IF START_ADDR + Len(data) > RAM_SIZE THEN panic(m)
    ELSE [m EXCEPT !.ram =
            copy_from_slice([a \in {b \in DOMAIN m.ram : b < START_ADDR} |-> m.ram[a]],
                            START_ADDR, data)]

\* Machine::load: copy data to ram[START_ADDR .. START_ADDR + len); the slice
\* index panics when the end lies past RAM_SIZE.
load(m, data) ==
    IF START_ADDR + Len(data) > RAM_SIZE THEN panic(m)
    ELSE [m EXCEPT !.ram = copy_from_slice(m.ram, START_ADDR, data)]

\* reset without the second copy_from_slice: the glyph table is not reinstalled.
reset_without_glyphs(m) ==
    [m EXCEPT !.pc = START_ADDR, !.ram = zero_ram, !.screen = blank_screen,
              !.v_reg = [r \in 0 .. (NUM_REGS - 1) |-> 0], !.i_reg = 0,
              !.stack = << >>, !.keys = [k \in 0 .. (NUM_KEYS - 1) |-> FALSE],
              !.dt = 0, !.st = 0]

\* Machine::reset: each field assigned in turn.
reset(m) ==
    LET m1 == [m EXCEPT !.pc = START_ADDR]
        m2 == [m1 EXCEPT !.ram = zero_ram]
        m3 == [m2 EXCEPT !.ram = copy_from_slice(m2.ram, 0, FONTSET)]
        m4 == [m3 EXCEPT !.screen = blank_screen]
        m5 == [m4 EXCEPT !.v_reg = [r \in 0 .. (NUM_REGS - 1) |-> 0]]
        m6 == [m5 EXCEPT !.i_reg = 0]
        m7 == [m6 EXCEPT !.stack = << >>]
        m8 == [m7 EXCEPT !.keys = [k \in 0 .. (NUM_KEYS - 1) |-> FALSE]]
        m9 == [m8 EXCEPT !.dt = 0]
    IN  [m9 EXCEPT !.st = 0]

\* Machine::push: VecDeque::push_back, which grows the deque as needed.
push(m, val) == [m EXCEPT !.stack = Append(m.stack, val)]

\* pop with unwrap_or_default in place of the exit: 0 from an empty stack.
pop_or_default(m) ==
    IF Len(m.stack) > 0
    THEN [val |-> m.stack[Len(m.stack)],
          m |-> [m EXCEPT !.stack = SubSeq(m.stack, 1, Len(m.stack) - 1)]]
    ELSE [val |-> 0, m |-> m]

\* pop with pop_front in place of pop_back: a queue, not a stack.
pop_front(m) ==
    IF Len(m.stack) > 0
    THEN [val |-> m.stack[1], m |-> [m EXCEPT !.stack = Tail(m.stack)]]
    ELSE [val |-> -1, m |-> [m EXCEPT !.process = "exit(5)"]]

\* Machine::pop: the popped value and the machine; on an empty stack the
\* process exits with status 5 and no value is produced.
pop(m) ==
    IF Len(m.stack) > 0
    THEN [val |-> m.stack[Len(m.stack)],
          m |-> [m EXCEPT !.stack = SubSeq(m.stack, 1, Len(m.stack) - 1)]]
    ELSE [val |-> -1, m |-> [m EXCEPT !.process = "exit(5)"]]

\* tick_timers with wrapping_sub in place of the tests against 0.
tick_timers_wrapping(m) ==
    [m EXCEPT !.dt = (m.dt - 1) % U8, !.st = (m.st - 1) % U8]

\* Machine::tick_timers.
tick_timers(m) ==
    LET m1 == IF m.dt > 0 THEN [m EXCEPT !.dt = m.dt - 1] ELSE m
    IN  IF m1.st > 0 THEN [m1 EXCEPT !.st = m1.st - 1] ELSE m1

\* Machine::keypress: the array index panics past NUM_KEYS.
keypress(m, index, pressed) ==
    IF index >= NUM_KEYS THEN panic(m)
    ELSE [m EXCEPT !.keys[index] = pressed]

\* fetch with the two bytes combined low byte first.
fetch_little_endian(m) ==
    IF m.pc >= RAM_SIZE \/ m.pc + 1 >= RAM_SIZE
    THEN [op |-> 0, m |-> panic(m)]
    ELSE [op |-> byte_at(m.ram, m.pc + 1) * 256 + byte_at(m.ram, m.pc),
          m |-> [m EXCEPT !.pc = m.pc + 2]]

\* Machine::fetch: the two bytes at pc, big-endian, and pc advanced by 2.
\* Either index panics past RAM_SIZE, before pc is written.
fetch(m) ==
    IF m.pc >= RAM_SIZE \/ m.pc + 1 >= RAM_SIZE
    THEN [op |-> 0, m |-> panic(m)]
    ELSE [op |-> byte_at(m.ram, m.pc) * 256 + byte_at(m.ram, m.pc + 1),
          m |-> [m EXCEPT !.pc = m.pc + 2]]

(***************************************************************************)
(* Machine::execute, one operator per arm of the match.  m is the machine  *)
(* after fetch, x, y, n the nibbles byte2, byte3, byte4.  checked is the   *)
(* build's overflow-checks setting: an overflowing +, - or * panics when   *)
(* it is on and wraps when it is off.                                      *)
(***************************************************************************)
\* a + b on u16.
add_u16(a, b, checked) ==
    IF a + b < U16 THEN [val |-> a + b, ok |-> TRUE]
    ELSE IF checked THEN [val |-> 0, ok |-> FALSE]
    ELSE [val |-> (a + b) % U16, ok |-> TRUE]

\* 00E0 as a no-op: the display is left as it is.
exec_00E0_keeps(m) == m

\* (0, 0, 0xE, 0)
exec_00E0(m) == [m EXCEPT !.screen = blank_screen]

\* (0, 0, 0xE, 0xE): self.pc = self.pop()
exec_00EE(m) ==
    LET p == pop(m)
    IN  IF p.m.process # "running" THEN p.m ELSE [p.m EXCEPT !.pc = p.val]

\* (1, _, _, _)
exec_1NNN(m, op) == [m EXCEPT !.pc = op % 4096]

\* (2, _, _, _): push(pc), then pc = NNN
exec_2NNN(m, op) ==
    LET m1 == push(m, m.pc)
    IN  [m1 EXCEPT !.pc = op % 4096]

\* 3XKK with the test inverted: the skip is taken when Vx # KK.
exec_3XKK_inverted(m, x, op) ==
    IF m.v_reg[x] # (op % 256) THEN [m EXCEPT !.pc = m.pc + 2] ELSE m

\* (3, _, _, _)
exec_3XKK(m, x, op) ==
    IF m.v_reg[x] = (op % 256) THEN [m EXCEPT !.pc = m.pc + 2] ELSE m

\* (4, _, _, _)
exec_4XKK(m, x, op) ==
    IF m.v_reg[x] # (op % 256) THEN [m EXCEPT !.pc = m.pc + 2] ELSE m

\* (5, _, _, 0)
exec_5XY0(m, x, y) ==
    IF m.v_reg[x] = m.v_reg[y] THEN [m EXCEPT !.pc = m.pc + 2] ELSE m

\* (6, _, _, _)
exec_6XKK(m, x, op) == [m EXCEPT !.v_reg[x] = op % 256]

\* (7, _, _, _): wrapping_add
exec_7XKK(m, x, op) == [m EXCEPT !.v_reg[x] = (m.v_reg[x] + (op % 256)) % U8]

\* (8, _, _, 0)
exec_8XY0(m, x, y) == [m EXCEPT !.v_reg[x] = m.v_reg[y]]

\* (8, _, _, 1)
exec_8XY1(m, x, y) == [m EXCEPT !.v_reg[x] = BitOr(m.v_reg[x], m.v_reg[y])]

\* (8, _, _, 2)
exec_8XY2(m, x, y) == [m EXCEPT !.v_reg[x] = BitAnd(m.v_reg[x], m.v_reg[y])]

\* (8, _, _, 3)
exec_8XY3(m, x, y) == [m EXCEPT !.v_reg[x] = BitXor(m.v_reg[x], m.v_reg[y])]

\* 8XY4 with the carry taken from sum > 256 in place of sum > 255.
exec_8XY4_carry_late(m, x, y) ==
    LET sum == m.v_reg[x] + m.v_reg[y]
        carry == sum > U8
        m1 == [m EXCEPT !.v_reg[x] = sum % U8]
    IN  [m1 EXCEPT !.v_reg[15] = IF carry THEN 1 ELSE 0]

\* (8, _, _, 4): overflowing_add into Vx, then VF = carry
exec_8XY4(m, x, y) ==
    LET sum == m.v_reg[x] + m.v_reg[y]
        carry == sum >= U8
        m1 == [m EXCEPT !.v_reg[x] = sum % U8]
    IN  [m1 EXCEPT !.v_reg[15] = IF carry THEN 1 ELSE 0]

\* 8XY5 with a borrow reported for equal operands as well.
exec_8XY5_borrow_on_equal(m, x, y) ==
    LET diff == m.v_reg[x] - m.v_reg[y]
        borrow == diff <= 0
        m1 == [m EXCEPT !.v_reg[x] = diff % U8]
    IN  [m1 EXCEPT !.v_reg[15] = IF borrow THEN 0 ELSE 1]

\* (8, _, _, 5): overflowing_sub into Vx, then VF = not borrow
exec_8XY5(m, x, y) ==
    LET diff == m.v_reg[x] - m.v_reg[y]
        borrow == diff < 0
        m1 == [m EXCEPT !.v_reg[x] = diff % U8]
    IN  [m1 EXCEPT !.v_reg[15] = IF borrow THEN 0 ELSE 1]

\* (8, _, _, 6): VF = Vx & 1, then Vx >>= 1
exec_8XY6(m, x) ==
    LET m1 == [m EXCEPT !.v_reg[15] = m.v_reg[x] % 2]
    IN  [m1 EXCEPT !.v_reg[x] = m1.v_reg[x] \div 2]

\* (8, _, _, 7): Vx = Vy - Vx (overflowing_sub), then VF = borrow
exec_8XY7(m, x, y) ==
    LET diff == m.v_reg[y] - m.v_reg[x]
        borrow == diff < 0
        m1 == [m EXCEPT !.v_reg[x] = diff % U8]
    IN  [m1 EXCEPT !.v_reg[15] = IF borrow THEN 1 ELSE 0]

\* (8, _, _, 0xE): VF = (Vx >> 7) & 1, then Vx <<= 1
exec_8XYE(m, x) ==
    LET m1 == [m EXCEPT !.v_reg[15] = (m.v_reg[x] \div 128) % 2]
    IN  [m1 EXCEPT !.v_reg[x] = (m1.v_reg[x] * 2) % U8]

\* (9, _, _, 0)
exec_9XY0(m, x, y) ==
    IF m.v_reg[x] # m.v_reg[y] THEN [m EXCEPT !.pc = m.pc + 2] ELSE m

\* (0xA, _, _, _)
exec_ANNN(m, op) == [m EXCEPT !.i_reg = op % 4096]

\* (0xB, _, _, _)
exec_BNNN(m, op) == [m EXCEPT !.pc = m.v_reg[0] + (op % 4096)]

\* (0xC, _, _, _): rnd is the byte random::<u8>() returns
exec_CXKK(m, x, op, rnd) == [m EXCEPT !.v_reg[x] = BitAnd(rnd, op % 256)]

\* pixel_index with only the start column reduced: column 63 + 1 runs on into
\* the next row in place of wrapping to column 0.
pixel_index_start_wrapped(x_start, y_start, i, j) ==
    LET x == (x_start % SCREEN_WIDTH) + i
        y == (y_start + j) % SCREEN_HEIGHT
    IN  y * SCREEN_WIDTH + x

\* The display cell of sprite column i, row j drawn from (x_start, y_start):
\* x and y are reduced modulo the screen size, index = y * SCREEN_WIDTH + x.
pixel_index(x_start, y_start, i, j) ==
    LET x == (x_start + i) % SCREEN_WIDTH
        y == (y_start + j) % SCREEN_HEIGHT
    IN  y * SCREEN_WIDTH + x

\* The inner loop of DXYN, for i in 0..8, over one sprite byte; acc holds the
\* screen and the flipped flag.  The eight iterations address eight different
\* cells (i < 8 <= SCREEN_WIDTH), so the loop is taken in one step: every
\* cell of a set bit is toggled, and flipped is raised if one of them was on.
draw_bits(acc, pixels, x_start, y_start, j) ==
    LET cells == { pixel_index(x_start, y_start, i, j) :
                      i \in { i \in 0 .. 7 : BitAnd(pixels, 128 \div Pow2(i)) # 0 } }
    IN  [screen |-> { c \in acc.screen \cup cells :
                         IF c \in cells THEN c \in toggle(acc.screen, c)
                         ELSE c \in acc.screen },
         flipped |-> acc.flipped \/ \E c \in cells : pixel(acc.screen, c)]

\* The outer loop of DXYN, for j in 0..byte4, then VF = flipped.  i_reg + j
\* may overflow u16 and ram[addr] may be out of bounds: the panic leaves the
\* pixels drawn so far and VF as it was.
RECURSIVE draw_rows(_, _, _, _, _, _, _)
draw_rows(m, acc, x_start, y_start, n, j, checked) ==
    IF j >= n
    THEN [m EXCEPT !.screen = acc.screen, !.v_reg[15] = IF acc.flipped THEN 1 ELSE 0]
    ELSE LET addr == add_u16(m.i_reg, j, checked)
         IN  IF ~addr.ok \/ addr.val >= RAM_SIZE
             THEN panic([m EXCEPT !.screen = acc.screen])
             ELSE draw_rows(m, draw_bits(acc, byte_at(m.ram, addr.val), x_start, y_start, j),
                            x_start, y_start, n, j + 1, checked)

\* (0xD, _, _, _)
exec_DXYN(m, x, y, n, checked) ==
    draw_rows(m, [screen |-> m.screen, flipped |-> FALSE],
              m.v_reg[x], m.v_reg[y], n, 0, checked)

\* (0xE, _, 9, 0xE): keys[Vx] panics when Vx >= NUM_KEYS
exec_EX9E(m, x) ==
    IF m.v_reg[x] >= NUM_KEYS THEN panic(m)
    ELSE IF m.keys[m.v_reg[x]] THEN [m EXCEPT !.pc = m.pc + 2] ELSE m

\* (0xE, _, 0xA, 1)
exec_EXA1(m, x) ==
    IF m.v_reg[x] >= NUM_KEYS THEN panic(m)
    ELSE IF ~m.keys[m.v_reg[x]] THEN [m EXCEPT !.pc = m.pc + 2] ELSE m

\* (0xF, _, 0, 7)
exec_FX07(m, x) == [m EXCEPT !.v_reg[x] = m.dt]

\* The loop of FX0A, for i in 0..keys.len() with break at the first pressed
\* key: that key's index, or NUM_KEYS when the loop ends with none.
RECURSIVE first_pressed(_, _)
first_pressed(ks, i) ==
    IF i >= NUM_KEYS THEN NUM_KEYS
    ELSE IF ks[i] THEN i
    ELSE first_pressed(ks, i + 1)

\* FX0A without the pc -= 2: a wait that does not wait.
exec_FX0A_without_rewind(m, x) ==
    LET k == first_pressed(m.keys, 0)
    IN  IF k < NUM_KEYS THEN [m EXCEPT !.v_reg[x] = k] ELSE m

\* (0xF, _, 0, 0xA): Vx = first pressed key; with none pressed, pc -= 2
exec_FX0A(m, x) ==
    LET k == first_pressed(m.keys, 0)
    IN  IF k < NUM_KEYS THEN [m EXCEPT !.v_reg[x] = k]
        ELSE [m EXCEPT !.pc = m.pc - 2]

\* (0xF, _, 1, 5)
exec_FX15(m, x) == [m EXCEPT !.dt = m.v_reg[x]]

\* (0xF, _, 1, 8)
exec_FX18(m, x) == [m EXCEPT !.st = m.v_reg[x]]

\* (0xF, _, 1, 0xE): wrapping_add on u16
exec_FX1E(m, x) == [m EXCEPT !.i_reg = (m.i_reg + m.v_reg[x]) % U16]

\* (0xF, _, 2, 9): Vx * 5 is a u8 product, widened to u16 afterwards
exec_FX29(m, x, checked) ==
    IF m.v_reg[x] * 5 < U8 THEN [m EXCEPT !.i_reg = m.v_reg[x] * 5]
    ELSE IF checked THEN panic(m)
    ELSE [m EXCEPT !.i_reg = (m.v_reg[x] * 5) % U8]

\* The loop of FX33, for i in 0..3: ram[i_reg + (2 - i)] = vx % 10; vx /= 10.
RECURSIVE bcd_loop(_, _, _, _)
bcd_loop(m, vx, i, checked) ==
    IF i >= 3 THEN m
    ELSE LET addr == add_u16(m.i_reg, 2 - i, checked)
         IN  IF ~addr.ok \/ addr.val >= RAM_SIZE THEN panic(m)
             ELSE bcd_loop([m EXCEPT !.ram = set_byte(m.ram, addr.val, vx % 10)], vx \div 10, i + 1, checked)

\* FX33 with the digits stored lowest first: ones at I, hundreds at I + 2.
exec_FX33_ones_first(m, x, checked) ==
    LET a0 == add_u16(m.i_reg, 0, checked)
        a1 == add_u16(m.i_reg, 1, checked)
        a2 == add_u16(m.i_reg, 2, checked)
        v == m.v_reg[x]
    IN  IF ~a2.ok \/ a2.val >= RAM_SIZE THEN panic(m)
        ELSE [m EXCEPT !.ram = set_byte(set_byte(set_byte(m.ram, a0.val, v % 10),
                                                 a1.val, (v \div 10) % 10),
                                        a2.val, v \div 100)]

\* (0xF, _, 3, 3)
exec_FX33(m, x, checked) == bcd_loop(m, m.v_reg[x], 0, checked)

\* The loop of FX55, for index in 0..=byte2.
RECURSIVE store_loop(_, _, _, _)
store_loop(m, x, index, checked) ==
    IF index > x THEN m
    ELSE LET addr == add_u16(m.i_reg, index, checked)
         IN  IF ~addr.ok \/ addr.val >= RAM_SIZE THEN panic(m)
             ELSE store_loop([m EXCEPT !.ram = set_byte(m.ram, addr.val, m.v_reg[index])], x, index + 1, checked)

\* (0xF, _, 5, 5)
exec_FX55(m, x, checked) == store_loop(m, x, 0, checked)

\* The loop of FX65, for index in 0..=byte2.
RECURSIVE load_loop(_, _, _, _)
load_loop(m, x, index, checked) ==
    IF index > x THEN m
    ELSE LET addr == add_u16(m.i_reg, index, checked)
         IN  IF ~addr.ok \/ addr.val >= RAM_SIZE THEN panic(m)
             ELSE load_loop([m EXCEPT !.v_reg[index] = byte_at(m.ram, addr.val)], x, index + 1, checked)

\* (0xF, _, 6, 5)
exec_FX65(m, x, checked) == load_loop(m, x, 0, checked)

\* The four nibbles of an opcode.
byte1(op) == (op \div 4096) % 16
byte2(op) == (op \div 256) % 16
byte3(op) == (op \div 16) % 16
byte4(op) == op % 16

\* The default arm with a panic in place of (): an unknown opcode is fatal.
exec_default_panics(m) == panic(m)

\* (_, _, _, _) => ()
exec_default(m) == m

\* Machine::execute: the match on (byte1, byte2, byte3, byte4), first arm first.
execute(m, op, rnd, checked) ==
    LET b1 == byte1(op)
        x == byte2(op)
        y == byte3(op)
        n == byte4(op)
    IN  CASE b1 = 0 /\ x = 0 /\ y = 14 /\ n = 0 -> exec_00E0(m)
          [] b1 = 0 /\ x = 0 /\ y = 14 /\ n = 14 -> exec_00EE(m)
          [] b1 = 1 -> exec_1NNN(m, op)
          [] b1 = 2 -> exec_2NNN(m, op)
          [] b1 = 3 -> exec_3XKK(m, x, op)
          [] b1 = 4 -> exec_4XKK(m, x, op)
          [] b1 = 5 /\ n = 0 -> exec_5XY0(m, x, y)
          [] b1 = 6 -> exec_6XKK(m, x, op)
          [] b1 = 7 -> exec_7XKK(m, x, op)
          [] b1 = 8 /\ n = 0 -> exec_8XY0(m, x, y)
          [] b1 = 8 /\ n = 1 -> exec_8XY1(m, x, y)
          [] b1 = 8 /\ n = 2 -> exec_8XY2(m, x, y)
          [] b1 = 8 /\ n = 3 -> exec_8XY3(m, x, y)
          [] b1 = 8 /\ n = 4 -> exec_8XY4(m, x, y)
          [] b1 = 8 /\ n = 5 -> exec_8XY5(m, x, y)
          [] b1 = 8 /\ n = 6 -> exec_8XY6(m, x)
          [] b1 = 8 /\ n = 7 -> exec_8XY7(m, x, y)
          [] b1 = 8 /\ n = 14 -> exec_8XYE(m, x)
          [] b1 = 9 /\ n = 0 -> exec_9XY0(m, x, y)
          [] b1 = 10 -> exec_ANNN(m, op)
          [] b1 = 11 -> exec_BNNN(m, op)
          [] b1 = 12 -> exec_CXKK(m, x, op, rnd)
          [] b1 = 13 -> exec_DXYN(m, x, y, n, checked)
          [] b1 = 14 /\ y = 9 /\ n = 14 -> exec_EX9E(m, x)
          [] b1 = 14 /\ y = 10 /\ n = 1 -> exec_EXA1(m, x)
          [] b1 = 15 /\ y = 0 /\ n = 7 -> exec_FX07(m, x)
          [] b1 = 15 /\ y = 0 /\ n = 10 -> exec_FX0A(m, x)
          [] b1 = 15 /\ y = 1 /\ n = 5 -> exec_FX15(m, x)
          [] b1 = 15 /\ y = 1 /\ n = 8 -> exec_FX18(m, x)
          [] b1 = 15 /\ y = 1 /\ n = 14 -> exec_FX1E(m, x)
          [] b1 = 15 /\ y = 2 /\ n = 9 -> exec_FX29(m, x, checked)
          [] b1 = 15 /\ y = 3 /\ n = 3 -> exec_FX33(m, x, checked)
          [] b1 = 15 /\ y = 5 /\ n = 5 -> exec_FX55(m, x, checked)
          [] b1 = 15 /\ y = 6 /\ n = 5 -> exec_FX65(m, x, checked)
          [] OTHER -> exec_default(m)

\* Machine::tick: fetch, then execute.
tick(m, rnd, checked) ==
    LET f == fetch(m)
    IN  IF f.m.process # "running" THEN f.m ELSE execute(f.m, f.op, rnd, checked)

(***************************************************************************)
(* Program images, written as opcode words and loaded as bytes.            *)
(***************************************************************************)
image(words) ==
    [k \in 1 .. (2 * Len(words)) |->
        IF k % 2 = 1 THEN words[(k + 1) \div 2] \div 256 ELSE words[k \div 2] % 256]

\* Nested calls into a shared subroutine, then a return with no call open.
ProgCalls ==
    image(<< \h2208,    \* 200: call 208
             \h220C,    \* 202: call 20C
             \h00EE,    \* 204: return with the stack empty
             \h0000,    \* 206
             \h220C,    \* 208: call 20C
             \h00EE,    \* 20A: return to 202
             \h00EE >>) \* 20C: return to 20A or to 204

\* Unbounded recursion.
ProgRecurse ==
    image(<< \h2200 >>) \* 200: call 200

\* One of each kind of state change, then a jump to the last byte of memory.
ProgMix ==
    image(<< \h60FE,    \* 200: V0 = FE
             \h7003,    \* 202: V0 += 3
             \hA005,    \* 204: I = 005
             \hF01E,    \* 206: I += V0
             \hD005,    \* 208: draw 5 rows at (V0, V0)
             \hF015,    \* 20A: delay timer = V0
             \hF018,    \* 20C: sound timer = V0
             \h5121,    \* 20E: no arm
             \h8100,    \* 210: V1 = V0
             \h2214,    \* 212: call 214
             \h1FFF >>) \* 214: jump to FFF

\* A wait for a key.
ProgWait ==
    image(<< \hF50A,    \* 200: V5 = the key pressed, once one is
             \h1202 >>) \* 202: jump to itself

\* Both timers set from random bytes.
ProgTimers ==
    image(<< \hC006,    \* 200: V0 = random & 06
             \hF015,    \* 202: delay timer = V0
             \hC105,    \* 204: V1 = random & 05
             \hF118,    \* 206: sound timer = V1
             \h1208 >>) \* 208: jump to itself

\* A glyph drawn at a random column, then a sprite taken from the image's own
\* bytes drawn twice at a random position.
ProgDraw ==
    image(<< \hC0FF,    \* 200: V0 = random
             \hD015,    \* 202: draw 5 rows of ram[I..] (glyph 0) at (V0, V1)
             \hC2FF,    \* 204: V2 = random
             \hC3FF,    \* 206: V3 = random
             \hC403,    \* 208: V4 = random & 03
             \hA200,    \* 20A: I = 200
             \hF41E,    \* 20C: I += V4
             \hD236,    \* 20E: draw 6 rows of ram[I..] at (V2, V3)
             \hD236,    \* 210: the same again
             \h1212 >>) \* 212: jump to itself

\* Additions with random operands, with VF as destination and as operand.
ProgAlu ==
    image(<< \hC0FF,    \* 200: V0 = random
             \hC1FF,    \* 202: V1 = random
             \hCFFF,    \* 204: VF = random
             \h8014,    \* 206: V0 += V1
             \h8F14,    \* 208: VF += V1
             \h81F4,    \* 20A: V1 += VF
             \h8004,    \* 20C: V0 += V0
             \h120E >>) \* 20E: jump to itself

\* Every flag-producing instruction with random operands, with VF as
\* destination, as operand and as both.
ProgFlags ==
    image(<< \hC0FF,    \* 200: V0 = random
             \hC1FF,    \* 202: V1 = random
             \hCFFF,    \* 204: VF = random
             \h8015,    \* 206: V0 -= V1
             \h8F10,    \* 208: VF = V1
             \h8F05,    \* 20A: VF -= V0
             \h8F10,    \* 20C: VF = V1
             \h80F5,    \* 20E: V0 -= VF
             \h8FF5,    \* 210: VF -= VF
             \h8F10,    \* 212: VF = V1
             \h8F06,    \* 214: VF >>= 1
             \h8F10,    \* 216: VF = V1
             \h8F0E,    \* 218: VF <<= 1
             \h8017,    \* 21A: V0 = V1 - V0
             \h8F10,    \* 21C: VF = V1
             \h8F07,    \* 21E: VF = V0 - VF
             \h80F7,    \* 220: V0 = VF - V0
             \h8014,    \* 222: V0 += V1
             \h8F10,    \* 224: VF = V1
             \h8F04,    \* 226: VF += V0
             \h8106,    \* 228: V1 >>= 1
             \h810E,    \* 22A: V1 <<= 1
             \hA000,    \* 22C: I = 000 (glyph 0)
             \hDFF1,    \* 22E: draw 1 row at (VF, VF)
             \hDFF1,    \* 230: and again
             \hDFF1,    \* 232: and again
             \h1234 >>) \* 234: jump to itself

\* Registers, index, timers, display and stack written, then opcodes that
\* match no arm of execute.
ProgUnknown ==
    image(<< \h6105,    \* 200: V1 = 05
             \hA000,    \* 202: I = 000 (glyph 0)
             \hF115,    \* 204: delay timer = V1
             \hF118,    \* 206: sound timer = V1
             \hD115,    \* 208: draw 5 rows at (V1, V1)
             \h220E,    \* 20A: call 20E
             \h120C,    \* 20C: jump to itself
             \h0123,    \* 20E: 0NNN
             \h00E1,    \* 210: 00E1
             \h00FE,    \* 212: 00FE
             \h5121,    \* 214: 5XY1
             \h512F,    \* 216: 5XYF
             \h8128,    \* 218: 8XY8
             \h812D,    \* 21A: 8XYD
             \h812F,    \* 21C: 8XYF
             \h9121,    \* 21E: 9XY1
             \h912F,    \* 220: 9XYF
             \hE19F,    \* 222: EX9F
             \hE1A2,    \* 224: EXA2
             \hE100,    \* 226: EX00
             \hF100,    \* 228: FX00
             \hF1FF,    \* 22A: FXFF
             \hF134,    \* 22C: FX34
             \h122E >>) \* 22E: jump to itself

\* A one-instruction image.
ShortImage ==
    image(<< \h1200 >>) \* 200: jump to itself

\* The program at the head of BigImage: memory past the program, index,
\* timers, display and stack written.
BigHead ==
    image(<< \h6101,    \* 200: V1 = 01
             \hA2F0,    \* 202: I = 2F0
             \hF155,    \* 204: ram[2F0] = V0, ram[2F1] = V1
             \hA000,    \* 206: I = 000 (glyph 0)
             \hF115,    \* 208: delay timer = V1
             \hF118,    \* 20A: sound timer = V1
             \hD115,    \* 20C: draw 5 rows at (V1, V1)
             \h2212,    \* 20E: call 212
             \h1210,    \* 210: jump to itself
             \h1212 >>) \* 212: jump to itself

\* An image of RAM_SIZE - START_ADDR bytes, the longest that fits: BigHead,
\* then zeros, then a last byte AB at address RAM_SIZE - 1.
BigImage ==
    BigHead \o [k \in 1 .. (RAM_SIZE - START_ADDR - Len(BigHead) - 1) |-> 0] \o << 171 >>

\* An image one byte longer than fits, every byte FF.
TooLongImage == [k \in 1 .. (RAM_SIZE - START_ADDR + 1) |-> 255]

\* Decimal digits stored three times, at overlapping addresses.
ProgBcd ==
    image(<< \hC0FF,    \* 200: V0 = random
             \hA300,    \* 202: I = 300
             \hF033,    \* 204: digits of V0 at 300..302
             \h61EA,    \* 206: V1 = 234
             \hA2FF,    \* 208: I = 2FF
             \hF133,    \* 20A: digits of V1 at 2FF..301
             \h6263,    \* 20C: V2 = 99
             \hF01E,    \* 20E: I += V0
             \hF233,    \* 210: digits of V2 at I..I+2
             \h1212 >>) \* 212: jump to itself

\* A glyph address taken from a register, and registers stored at address 0.
ProgGlyph ==
    image(<< \hC0FF,    \* 200: V0 = random
             \hF029,    \* 202: I = address of glyph V0
             \h6134,    \* 204: V1 = 34 (52)
             \hF129,    \* 206: I = address of glyph V1
             \hA000,    \* 208: I = 000
             \hF155,    \* 20A: ram[000] = V0, ram[001] = V1
             \h120C >>) \* 20C: jump to itself

\* Each conditional skip, with random registers, over no-ops.
ProgSkip ==
    image(<< \hC0FF,    \* 200: V0 = random
             \hC1FF,    \* 202: V1 = random
             \h3001,    \* 204: skip if V0 = 01
             \h0000,    \* 206
             \h4001,    \* 208: skip if V0 # 01
             \h0000,    \* 20A
             \h5010,    \* 20C: skip if V0 = V1
             \h0000,    \* 20E
             \h9010,    \* 210: skip if V0 # V1
             \h0000,    \* 212
             \hE19E,    \* 214: skip if key V1 is pressed
             \h0000,    \* 216
             \hE0A1,    \* 218: skip if key V0 is not pressed
             \h0000,    \* 21A
             \h121C >>) \* 21C: jump to itself

\* Two overlapping draws (the second leaves VF = 1), then instructions of
\* every other kind, then a clear.
ProgScreen ==
    image(<< \hA000,    \* 200: I = 000 (glyph 0)
             \hD005,    \* 202: draw 5 rows at (0, 0)
             \h6601,    \* 204: V6 = 01
             \hD665,    \* 206: draw 5 rows at (1, 1), over the first
             \h6101,    \* 208: V1 = 01
             \h7101,    \* 20A: V1 += 01
             \h8210,    \* 20C: V2 = V1
             \h8211,    \* 20E: V2 |= V1
             \hF115,    \* 210: delay timer = V1
             \hF118,    \* 212: sound timer = V1
             \hF11E,    \* 214: I += V1
             \hF229,    \* 216: I = address of glyph V2
             \hA300,    \* 218: I = 300
             \hF233,    \* 21A: digits of V2 at 300..302
             \hF255,    \* 21C: ram[300..302] = V0..V2
             \hF265,    \* 21E: V0..V2 = ram[300..302]
             \hF307,    \* 220: V3 = delay timer
             \hC4FF,    \* 222: V4 = random
             \h2234,    \* 224: call 234
             \h3102,    \* 226: skip if V1 = 02
             \h0000,    \* 228
             \h4102,    \* 22A: skip if V1 # 02
             \hE09E,    \* 22C: skip if key V0 is pressed
             \hF50A,    \* 22E: V5 = the key pressed, once one is
             \h1236,    \* 230: jump to 236
             \h0000,    \* 232
             \h00EE,    \* 234: return to 226
             \h00E0,    \* 236: clear the display
             \h1238 >>) \* 238: jump to itself

(***************************************************************************)
(* The actions: one per public method of Machine.                          *)
(***************************************************************************)
Set(m) ==
    /\ pc' = m.pc
    /\ ram' = m.ram
    /\ screen' = m.screen
    /\ v_reg' = m.v_reg
    /\ i_reg' = m.i_reg
    /\ stack' = m.stack
    /\ keys' = m.keys
    /\ dt' = m.dt
    /\ st' = m.st
    /\ process' = m.process

\* The opcode tick is about to execute.
CurrentOp == byte_at(ram, pc) * 256 + byte_at(ram, pc + 1)
CanFetch == pc + 1 < RAM_SIZE

\* The history of open calls: a call at pc records its site and the depth
\* before it; a return closes the latest one.
track_calls ==
    IF ~CanFetch THEN calls
    ELSE IF byte1(CurrentOp) = 2
         THEN Append(calls, [site |-> pc, depth |-> Len(stack)])
    ELSE IF CurrentOp = \h00EE /\ Len(calls) > 0
         THEN SubSeq(calls, 1, Len(calls) - 1)
    ELSE calls

Load(data) ==
    /\ process = "running"
    /\ Set(load(State, data))
    /\ UNCHANGED calls

Reset ==
    /\ process = "running"
    /\ Set(reset(State))
    /\ calls' = << >>

TickTimers ==
    /\ process = "running"
    /\ Set(tick_timers(State))
    /\ UNCHANGED calls

Keypress(index, pressed) ==
    /\ process = "running"
    /\ Set(keypress(State, index, pressed))
    /\ UNCHANGED calls

Tick ==
    /\ process = "running"
    /\ Len(stack) <= MaxDepth
    /\ \E rnd \in (IF CanFetch /\ byte1(CurrentOp) = 12 THEN RandomBytes ELSE {0}),
          checked \in BOOLEAN :
          Set(tick(State, rnd, checked))
    /\ calls' = track_calls

Init ==
    /\ pc = new.pc
    /\ ram = new.ram
    /\ screen = new.screen
    /\ v_reg = new.v_reg
    /\ i_reg = new.i_reg
    /\ stack = new.stack
    /\ keys = new.keys
    /\ dt = new.dt
    /\ st = new.st
    /\ process = new.process
    /\ calls = << >>

\* Any call of a public method, with images from P and key indices from K.
NextOf(P, K) ==
    \/ \E data \in P : Load(data)
    \/ Reset
    \/ TickTimers
    \/ \E index \in K, pressed \in BOOLEAN : Keypress(index, pressed)
    \/ Tick

\* The specifications: the machine after new(), driven by any sequence of
\* calls, each with one program image.
Next == NextOf({ProgMix}, 0 .. MaxKey)
Spec == Init /\ [][Next]_vars

NextCalls == NextOf({ProgCalls}, 0 .. MaxKey)
SpecCalls == Init /\ [][NextCalls]_vars

NextKeys == NextOf({ProgWait}, (0 .. MaxKey) \cup {NUM_KEYS - 1})
SpecKeys == Init /\ [][NextKeys]_vars

NextTimers == NextOf({ProgTimers}, 0 .. MaxKey)
SpecTimers == Init /\ [][NextTimers]_vars

NextDraw == NextOf({ProgDraw}, {0})
SpecDraw == Init /\ [][NextDraw]_vars

NextAlu == NextOf({ProgAlu}, 0 .. MaxKey)
SpecAlu == Init /\ [][NextAlu]_vars

NextRecurse == NextOf({ProgRecurse}, 0 .. MaxKey)
SpecRecurse == Init /\ [][NextRecurse]_vars

NextFlags == NextOf({ProgFlags}, {0})
SpecFlags == Init /\ [][NextFlags]_vars

NextUnknown == NextOf({ProgUnknown}, 0 .. MaxKey)
SpecUnknown == Init /\ [][NextUnknown]_vars

NextBcd == NextOf({ProgBcd}, 0 .. MaxKey)
SpecBcd == Init /\ [][NextBcd]_vars

NextGlyph == NextOf({ProgGlyph}, 0 .. MaxKey)
SpecGlyph == Init /\ [][NextGlyph]_vars

NextScreen == NextOf({ProgScreen}, 0 .. MaxKey)
SpecScreen == Init /\ [][NextScreen]_vars

NextSkip == NextOf({ProgSkip}, 0 .. MaxKey)
SpecSkip == Init /\ [][NextSkip]_vars

NextLoad == NextOf({ShortImage, BigImage, TooLongImage}, {0})
SpecLoad == Init /\ [][NextLoad]_vars

(***************************************************************************)
(* Properties.                                                             *)
(***************************************************************************)
\* The parts of the machine no stack operation touches.
others == <<ram, screen, v_reg, i_reg, keys, dt, st>>

\* C1: a tick that executes 00EE with the call stack empty ends with the
\* process exited with status 5, pc left at the value fetch gave it (no
\* wrapped or default address), the stack and everything else as before;
\* and no step is ever taken by a process that is not running, so no later
\* tick executes on that machine.
C1_EmptyReturnIsFatal ==
    [][ /\ (CanFetch /\ CurrentOp = \h00EE /\ stack = << >> /\ Tick) =>
              /\ process' = "exit(5)"
              /\ pc' = pc + 2
              /\ stack' = << >>
              /\ UNCHANGED others
        /\ process = "running" ]_vars

\* The process has exited on the return at 204 of ProgCalls.
C1_Witness ==
    /\ process = "exit(5)"
    /\ stack = << >>
    /\ pc = \h206
    /\ byte_at(ram, \h204) * 256 + byte_at(ram, \h205) = \h00EE

\* C2: a tick executing 2NNN at a pushes a + 2 and sets pc to NNN; the open
\* calls, oldest first, are exactly the frames of the stack (frame k holds
\* site + 2 of the k-th open call, made at depth k - 1); and a tick executing
\* 00EE with a call open sets pc to the latest open call's site + 2 and the
\* stack depth to the depth before that call: returns are served last in,
\* first out, whatever calls and returns were nested inside.
C2_CallReturn ==
    /\ [](/\ Len(calls) = Len(stack)
          /\ \A k \in 1 .. Len(stack) :
                stack[k] = calls[k].site + 2 /\ calls[k].depth = k - 1)
    /\ [][ (CanFetch /\ (byte1(CurrentOp) = 2 \/ CurrentOp = \h00EE) /\ Tick) =>
              /\ byte1(CurrentOp) = 2 =>
                    /\ stack' = Append(stack, pc + 2)
                    /\ pc' = CurrentOp % 4096
                    /\ UNCHANGED others
              /\ (CurrentOp = \h00EE /\ Len(calls) > 0) =>
                    /\ pc' = calls[Len(calls)].site + 2
                    /\ Len(stack') = calls[Len(calls)].depth
                    /\ stack' = SubSeq(stack, 1, Len(stack) - 1)
                    /\ process' = "running"
                    /\ UNCHANGED others ]_vars

\* In ProgCalls the call at 200 is open and the call made at 208 inside it
\* has returned to 20A.
C2_Witness ==
    /\ process = "running"
    /\ pc = \h20A
    /\ stack = << \h202 >>
    /\ calls = << [site |-> \h200, depth |-> 0] >>

\* C3: the call stack never holds more than STACK_SIZE return addresses.
C3_StackBounded == Len(stack) <= STACK_SIZE

\* The arms of execute that assign pc: 00EE, 1NNN, 2NNN, the skips 3XKK,
\* 4XKK, 5XY0, 9XY0, EX9E, EXA1, the jump BNNN and the wait FX0A.
writes_pc(op) ==
    \/ op = \h00EE
    \/ byte1(op) \in {1, 2, 3, 4, 11}
    \/ byte1(op) \in {5, 9} /\ byte4(op) = 0
    \/ byte1(op) = 14 /\ byte3(op) = 9 /\ byte4(op) = 14
    \/ byte1(op) = 14 /\ byte3(op) = 10 /\ byte4(op) = 1
    \/ byte1(op) = 15 /\ byte3(op) = 0 /\ byte4(op) = 10

\* What a tick does when the opcode is ram[pc] * 256 + ram[pc + 1] and pc is
\* advanced by 2 before execute runs.
fetch_then_execute ==
    /\ \E rnd \in RandomBytes, checked \in BOOLEAN :
          State' = execute([State EXCEPT !.pc = pc + 2], CurrentOp, rnd, checked)
    /\ ~writes_pc(CurrentOp) => pc' = pc + 2

\* C4 as stated: in every reachable state a tick reads the opcode as
\* ram[pc] * 256 + ram[pc + 1] and advances pc by 2 before execute runs, so
\* that an instruction that does not write pc ends the tick at pc + 2.
C4_FetchInEveryState == [][Tick => fetch_then_execute]_vars

\* C4 amended: in every reachable state with pc + 1 < RAM_SIZE a tick reads
\* the opcode as ram[pc] * 256 + ram[pc + 1] and advances pc by 2 before
\* execute runs, so that an instruction that does not write pc ends the tick
\* at pc + 2.  (With pc + 1 >= RAM_SIZE the fetch panics and pc is not
\* advanced.)
C4_FetchAdvancesPc == [][(CanFetch /\ Tick) => fetch_then_execute]_vars

\* ProgMix has executed 60FE and 7003, neither of which writes pc.
C4_Witness ==
    /\ process = "running"
    /\ pc = \h204
    /\ v_reg[0] = 1
    /\ byte_at(ram, \h200) * 256 + byte_at(ram, \h201) = \h60FE

\* C6: whatever load, tick, tick_timers and keypress calls came before,
\* reset() leaves every field equal to that of new(): pc, all of memory (the
\* glyph table reinstalled, no byte of the program left), display,
\* registers, index register, stack, keys and both timers.
C6_ResetRestoresNew == process = "running" => reset(State) = new

\* A machine about to be reset in which every field differs from new().
C6_Witness ==
    /\ process = "running"
    /\ pc # new.pc
    /\ byte_at(ram, START_ADDR) # 0
    /\ screen # new.screen
    /\ v_reg # new.v_reg
    /\ i_reg # 0
    /\ stack # << >>
    /\ keys # new.keys
    /\ dt # 0
    /\ st # 0
    /\ reset(State) = new

\* The opcode is FX0A.
is_FX0A(op) == byte1(op) = 15 /\ byte3(op) = 0 /\ byte4(op) = 10

\* The keys held down.
pressed_keys == {k \in 0 .. (NUM_KEYS - 1) : keys[k]}

\* C5: while no key is pressed a tick that executes FX0A changes nothing: pc,
\* registers, index register, memory, display, stack, keys and timers are as
\* before, so the same FX0A is fetched by the next tick; with a key pressed
\* the tick sets Vx to the lowest index among the pressed keys, ends with
\* pc = old pc + 2 and changes nothing else.
C5_WaitForKey ==
    /\ []((process = "running" /\ CanFetch /\ is_FX0A(CurrentOp) /\ pressed_keys = {}) =>
              \A checked \in BOOLEAN : tick(State, 0, checked) = State)
    /\ [][ (CanFetch /\ is_FX0A(CurrentOp) /\ Tick) =>
              IF pressed_keys = {}
              THEN UNCHANGED vars
              ELSE /\ v_reg' = [v_reg EXCEPT ![byte2(CurrentOp)] =
                                   CHOOSE k \in pressed_keys : \A j \in pressed_keys : k <= j]
                   /\ pc' = pc + 2
                   /\ UNCHANGED <<ram, screen, i_reg, stack, keys, dt, st, process>> ]_vars

\* ProgWait is past its FX0A with V5 = 1: the tick found key 1 the lowest
\* pressed; key 15 is down as well.
C5_Witness ==
    /\ process = "running"
    /\ pc = \h202
    /\ byte_at(ram, \h200) * 256 + byte_at(ram, \h201) = \hF50A
    /\ v_reg[5] = 1
    /\ keys[1] /\ keys[NUM_KEYS - 1] /\ ~keys[0]

\* The machine after n calls of tick_timers.
RECURSIVE timers_after(_, _)
timers_after(m, n) == IF n = 0 THEN m ELSE timers_after(tick_timers(m), n - 1)

Max(a, b) == IF a >= b THEN a ELSE b

\* C7: n calls of tick_timers (n = 1 included) leave the delay timer at
\* max(dt - n, 0) and the sound timer at max(st - n, 0), each whatever the
\* other holds: a nonzero timer goes down by exactly 1 per call, a timer at 0
\* stays at 0 and never wraps to 255; nothing else changes.
C7_TimersFloorAtZero ==
    process = "running" =>
        \A n \in 0 .. MaxTimerCalls :
            LET m == timers_after(State, n)
            IN  /\ m.dt = Max(dt - n, 0)
                /\ m.st = Max(st - n, 0)
                /\ [m EXCEPT !.dt = dt, !.st = st] = State

\* ProgTimers set the delay timer to 0 and the sound timer to 5, and four
\* calls of tick_timers have brought the sound timer to 1 with the delay
\* timer still 0.
C7_Witness ==
    /\ process = "running"
    /\ pc = \h208
    /\ v_reg[0] = 0 /\ v_reg[1] = 5
    /\ dt = 0 /\ st = 1

\* The opcode is DXYN, and its sprite rows lie inside memory.
is_DXYN(op) == byte1(op) = 13
sprite_in_ram(m, op) == m.i_reg + byte4(op) <= RAM_SIZE

\* C8: when the next two instructions are the same DXYN, with its sprite in
\* memory and Vx, Vy the same for both draws (neither is the VF the first
\* draw writes, or VF keeps its value), the second draw returns every
\* display cell to the value it had before the first, and sets VF = 1 if the
\* first draw turned any pixel on.
C8_DrawTwiceRestores ==
    (/\ process = "running"
     /\ pc + 3 < RAM_SIZE
     /\ is_DXYN(CurrentOp)
     /\ byte_at(ram, pc + 2) * 256 + byte_at(ram, pc + 3) = CurrentOp
     /\ sprite_in_ram(State, CurrentOp)) =>
        \A checked \in BOOLEAN :
            LET m1 == tick(State, 0, checked)
                m2 == tick(m1, 0, checked)
                x == byte2(CurrentOp)
                y == byte3(CurrentOp)
            IN  (m1.v_reg[x] = v_reg[x] /\ m1.v_reg[y] = v_reg[y]) =>
                    /\ m2.process = "running"
                    /\ m2.pc = pc + 4
                    /\ m2.screen = screen
                    /\ (m1.screen \ screen # {}) => m2.v_reg[15] = 1

\* ProgDraw has drawn its sprite twice over the glyph: the glyph is what the
\* display shows, and the second draw reported the collision.
C8_Witness ==
    /\ process = "running"
    /\ pc = \h212
    /\ v_reg[0] = 1 /\ v_reg[2] = 255 /\ v_reg[3] = 255 /\ v_reg[4] = 1
    /\ v_reg[15] = 1
    /\ screen = {r * SCREEN_WIDTH + c : r \in {0, 4}, c \in 1 .. 4}
                   \cup {r * SCREEN_WIDTH + c : r \in 1 .. 3, c \in {1, 4}}

\* The set bits of the sprite a DXYN at the current pc is to draw: <<j, i>> for
\* row j < N and column i < 8 with bit 7 - i of ram[I + j] set.
sprite_bits ==
    { <<j, i>> \in (0 .. (byte4(CurrentOp) - 1)) \X (0 .. 7) :
         Bit(byte_at(ram, i_reg + j), 7 - i) = 1 }

\* The cells those bits stand for: column (Vx + i) mod 64, row (Vy + j) mod 32,
\* index row * 64 + column.
sprite_cells ==
    LET x == v_reg[byte2(CurrentOp)]
        y == v_reg[byte3(CurrentOp)]
    IN  { ((y + b[1]) % 32) * 64 + ((x + b[2]) % 64) : b \in sprite_bits }

\* C9: a tick executing DXYN with its sprite in memory toggles exactly the
\* cells (Vx + i) mod 64, (Vy + j) mod 32 of the set sprite bits, for every Vx
\* and Vy: each set bit has a cell of its own (none is dropped at an edge),
\* the cells that were off are on afterwards, those that were on are off,
\* and no other cell changes.
C9_SpriteWraps ==
    (process = "running" /\ CanFetch /\ is_DXYN(CurrentOp) /\ sprite_in_ram(State, CurrentOp)) =>
        \A checked \in BOOLEAN :
            LET m == tick(State, 0, checked)
            IN  /\ m.process = "running"
                /\ Cardinality(sprite_cells) = Cardinality(sprite_bits)
                /\ m.screen = (screen \ sprite_cells) \cup (sprite_cells \ screen)
                /\ m.screen \subseteq 0 .. (SCREEN_WIDTH * SCREEN_HEIGHT - 1)

\* ProgDraw has drawn the row C0 at column 63 of row 0 (Vx = 255, Vy = 0):
\* its two set bits are on at column 63 and at column 0.
C9_Witness ==
    /\ process = "running"
    /\ pc = \h210
    /\ v_reg[0] = 1 /\ v_reg[2] = 255 /\ v_reg[3] = 0 /\ v_reg[4] = 0
    /\ i_reg = START_ADDR
    /\ 63 \in screen /\ 0 \in screen /\ 5 \notin screen

\* The opcode is 8XY4.
is_8XY4(op) == byte1(op) = 8 /\ byte4(op) = 4

\* C10 as stated: with a = Vx and b = Vy before the tick, 8XY4 leaves
\* Vx = (a + b) mod 256 and VF = 1 if a + b > 255, VF = 0 otherwise.
C10_AddForEveryX ==
    [][ (CanFetch /\ is_8XY4(CurrentOp) /\ Tick) =>
            LET a == v_reg[byte2(CurrentOp)]
                b == v_reg[byte3(CurrentOp)]
            IN  /\ v_reg'[byte2(CurrentOp)] = (a + b) % 256
                /\ v_reg'[15] = (IF a + b > 255 THEN 1 ELSE 0) ]_vars

\* C10 amended: with a = Vx and b = Vy before the tick, 8XY4 leaves VF = 1 if
\* a + b > 255 and VF = 0 otherwise, for every X and Y, and leaves
\* Vx = (a + b) mod 256 when X is not F (with X = F the flag is written over
\* the sum); pc advances by 2 and nothing else changes.
C10_AddCarry ==
    [][ (CanFetch /\ is_8XY4(CurrentOp) /\ Tick) =>
            LET x == byte2(CurrentOp)
                a == v_reg[x]
                b == v_reg[byte3(CurrentOp)]
                carry == IF a + b > 255 THEN 1 ELSE 0
            IN  /\ v_reg' = [r \in 0 .. (NUM_REGS - 1) |->
                                IF r = 15 THEN carry
                                ELSE IF r = x THEN (a + b) % 256
                                ELSE v_reg[r]]
                /\ pc' = pc + 2
                /\ UNCHANGED <<ram, screen, i_reg, stack, keys, dt, st, process>> ]_vars

\* ProgAlu has added V1 = 255 to V0 = 1: V0 = 0 and VF = 1.
C10_Witness ==
    /\ process = "running"
    /\ pc = \h208
    /\ v_reg[0] = 0 /\ v_reg[1] = 255 /\ v_reg[15] = 1

\* The opcode is 8XY5.
is_8XY5(op) == byte1(op) = 8 /\ byte4(op) = 5

\* C11 as stated: with a = Vx and b = Vy before the tick, 8XY5 leaves
\* Vx = (a - b) mod 256 and VF = 0 if a < b, VF = 1 otherwise.
C11_SubForEveryX ==
    [][ (CanFetch /\ is_8XY5(CurrentOp) /\ Tick) =>
            LET a == v_reg[byte2(CurrentOp)]
                b == v_reg[byte3(CurrentOp)]
            IN  /\ v_reg'[byte2(CurrentOp)] = (a - b) % 256
                /\ v_reg'[15] = (IF a < b THEN 0 ELSE 1) ]_vars

\* C11 amended: with a = Vx and b = Vy before the tick, 8XY5 leaves VF = 0 if
\* a < b and VF = 1 otherwise, for every X and Y, and leaves
\* Vx = (a - b) mod 256 when X is not F (with X = F the flag is written over
\* the difference); pc advances by 2 and nothing else changes.
C11_SubBorrow ==
    [][ (CanFetch /\ is_8XY5(CurrentOp) /\ Tick) =>
            LET x == byte2(CurrentOp)
                a == v_reg[x]
                b == v_reg[byte3(CurrentOp)]
                flag == IF a < b THEN 0 ELSE 1
            IN  /\ v_reg' = [r \in 0 .. (NUM_REGS - 1) |->
                                IF r = 15 THEN flag
                                ELSE IF r = x THEN (a - b) % 256
                                ELSE v_reg[r]]
                /\ pc' = pc + 2
                /\ UNCHANGED <<ram, screen, i_reg, stack, keys, dt, st, process>> ]_vars

\* ProgFlags has subtracted V1 = 255 from V0 = 1: V0 = 2 and VF = 0.
C11_Witness ==
    /\ process = "running"
    /\ pc = \h208
    /\ byte_at(ram, \h206) * 256 + byte_at(ram, \h207) = \h8015
    /\ v_reg[0] = 2 /\ v_reg[1] = 255 /\ v_reg[15] = 0

\* The flag-producing instructions.
is_8XY6(op) == byte1(op) = 8 /\ byte4(op) = 6
is_8XY7(op) == byte1(op) = 8 /\ byte4(op) = 7
is_8XYE(op) == byte1(op) = 8 /\ byte4(op) = 14
produces_flag(op) ==
    is_8XY4(op) \/ is_8XY5(op) \/ is_8XY6(op) \/ is_8XY7(op) \/ is_8XYE(op) \/ is_DXYN(op)

\* The flag of the instruction about to execute, from the values the
\* operands hold now: carry, no-borrow, shifted-out low bit, borrow,
\* shifted-out high bit, collision.
flag_before ==
    LET a == v_reg[byte2(CurrentOp)]
        b == v_reg[byte3(CurrentOp)]
    IN  CASE is_8XY4(CurrentOp) -> IF a + b > 255 THEN 1 ELSE 0
          [] is_8XY5(CurrentOp) -> IF a < b THEN 0 ELSE 1
          [] is_8XY6(CurrentOp) -> a % 2
          [] is_8XY7(CurrentOp) -> IF b < a THEN 1 ELSE 0
          [] is_8XYE(CurrentOp) -> a \div 128
          [] is_DXYN(CurrentOp) -> IF sprite_cells \cap screen # {} THEN 1 ELSE 0

\* C12: a tick executing 8XY4, 8XY5, 8XY6, 8XY7, 8XYE or DXYN (its sprite
\* in memory) leaves in VF the instruction's flag computed from the operand
\* values before the tick, for every X and Y, X = F and Y = F included.
C12_FlagOverridesOperand ==
    (process = "running" /\ CanFetch /\ produces_flag(CurrentOp)
        /\ (is_DXYN(CurrentOp) => sprite_in_ram(State, CurrentOp))) =>
        \A checked \in BOOLEAN : tick(State, 0, checked).v_reg[15] = flag_before

\* The opcode matches an arm of execute other than the default one.
in_table(op) ==
    LET b1 == byte1(op)
        y == byte3(op)
        n == byte4(op)
    IN  \/ op = \h00E0 \/ op = \h00EE
        \/ b1 \in {1, 2, 3, 4, 6, 7, 10, 11, 12, 13}
        \/ b1 \in {5, 9} /\ n = 0
        \/ b1 = 8 /\ n \in {0, 1, 2, 3, 4, 5, 6, 7, 14}
        \/ b1 = 14 /\ <<y, n>> \in {<<9, 14>>, <<10, 1>>}
        \/ b1 = 15 /\ <<y, n>> \in {<<0, 7>>, <<0, 10>>, <<1, 5>>, <<1, 8>>, <<1, 14>>,
                                     <<2, 9>>, <<3, 3>>, <<5, 5>>, <<6, 5>>}

\* C13: a tick on an opcode that matches no row of the instruction table
\* ends with the process running, pc = old pc + 2 and memory, display,
\* registers, index register, stack, keys and timers unchanged.
C13_UnknownIsNoOp ==
    (process = "running" /\ CanFetch /\ ~in_table(CurrentOp)) =>
        \A rnd \in RandomBytes, checked \in BOOLEAN :
            tick(State, rnd, checked) = [State EXCEPT !.pc = pc + 2]

\* ProgUnknown has executed the unknown opcodes up to F1FF with registers,
\* index, timers, display and stack all written.
C13_Witness ==
    /\ process = "running"
    /\ pc = \h22C
    /\ ~in_table(CurrentOp)
    /\ v_reg[1] = 5 /\ dt > 0 /\ st > 0 /\ screen # {} /\ stack = << \h20C >>
    /\ keys[1]

\* Images that fit: none, one instruction, and the longest that fits.
FittingImages == {<< >>, ShortImage, BigImage}

\* C14: load(data) with len(data) <= RAM_SIZE - START_ADDR, called in any
\* reachable state, completes, leaves ram[START_ADDR + k] = data[k] for every
\* k < len(data), every other byte of memory as it was, and pc, registers,
\* index register, stack, display, keys and timers as they were.  (A byte
\* at an address outside both DOMAIN ram and DOMAIN m.ram is 0 before and
\* after, so the bytes not written are compared on the union of the two.)
C14_LoadWritesImageOnly ==
    process = "running" =>
        \A data \in FittingImages :
            LET m == load(State, data)
                written == START_ADDR .. (START_ADDR + Len(data) - 1)
            IN  /\ Len(data) <= RAM_SIZE - START_ADDR
                /\ [m EXCEPT !.ram = ram] = State
                /\ DOMAIN m.ram \subseteq 0 .. (RAM_SIZE - 1)
                /\ \A a \in written : byte_at(m.ram, a) = data[a - START_ADDR + 1]
                /\ \A a \in (DOMAIN ram \cup DOMAIN m.ram) \ written :
                      byte_at(m.ram, a) = byte_at(ram, a)

\* ShortImage has been loaded over BigImage after its program ran: the two
\* bytes of the image are in place, and the rest of BigImage, the byte the
\* program stored and the rest of the machine are as the program left them.
C14_Witness ==
    /\ process = "running"
    /\ pc = \h212
    /\ byte_at(ram, \h200) = \h12 /\ byte_at(ram, \h201) = 0
    /\ byte_at(ram, \h202) = \hA2 /\ byte_at(ram, \h2F1) = 1
    /\ byte_at(ram, RAM_SIZE - 1) = 171
    /\ v_reg[1] = 1 /\ dt = 1 /\ st = 1 /\ screen # {} /\ stack = << \h210 >>
    /\ keys[0]

\* C15: load(data) with len(data) > RAM_SIZE - START_ADDR, called in any
\* reachable state, fails with the out-of-bounds panic and leaves memory, and
\* the rest of the machine, as it was: no part of the image is written.
C15_LoadTooLongFails ==
    process = "running" =>
        LET m == load(State, TooLongImage)
        IN  /\ Len(TooLongImage) > RAM_SIZE - START_ADDR
            /\ m.process = "panic"
            /\ m.ram = ram
            /\ [m EXCEPT !.process = "running"] = State

\* TooLongImage has been loaded over BigImage after its program ran: the
\* process has panicked and memory still holds BigImage.
C15_Witness ==
    /\ process = "panic"
    /\ pc = \h212
    /\ byte_at(ram, \h200) = \h61 /\ byte_at(ram, RAM_SIZE - 1) = 171
    /\ byte_at(ram, \h2F1) = 1

\* The opcode is FX33.
is_FX33(op) == byte1(op) = 15 /\ byte3(op) = 3 /\ byte4(op) = 3

\* C16: when the next instruction is FX33 and I, I + 1, I + 2 are addresses
\* of memory, then for every 8-bit value v in Vx the tick leaves
\* ram[I] = v div 100, ram[I + 1] = (v div 10) mod 10, ram[I + 2] = v mod 10,
\* every other byte of memory, Vx, the index register and the rest of the
\* machine as they were, and pc advanced by 2.
C16_BcdDigits ==
    (process = "running" /\ CanFetch /\ is_FX33(CurrentOp) /\ i_reg + 2 < RAM_SIZE) =>
        \A v \in 0 .. (U8 - 1), checked \in BOOLEAN :
            LET before == [State EXCEPT !.v_reg[byte2(CurrentOp)] = v]
                m == tick(before, 0, checked)
            IN  /\ [m EXCEPT !.ram = ram] = [before EXCEPT !.pc = pc + 2]
                /\ byte_at(m.ram, i_reg) = v \div 100
                /\ byte_at(m.ram, i_reg + 1) = (v \div 10) % 10
                /\ byte_at(m.ram, i_reg + 2) = v % 10
                /\ \A a \in (DOMAIN ram \cup DOMAIN m.ram) \ (i_reg .. (i_reg + 2)) :
                      byte_at(m.ram, a) = byte_at(ram, a)

\* ProgBcd has stored the digits of V0 = 255 at 300..302 and then those of
\* V1 = 234 at 2FF..301: 2, 3, 4 and the 5 left from the first store.
C16_Witness ==
    /\ process = "running"
    /\ pc = \h20C
    /\ v_reg[0] = 255 /\ v_reg[1] = 234 /\ i_reg = \h2FF
    /\ byte_at(ram, \h2FF) = 2 /\ byte_at(ram, \h300) = 3
    /\ byte_at(ram, \h301) = 4 /\ byte_at(ram, \h302) = 5

\* C17: in every state reachable from new() by load, tick, tick_timers,
\* keypress and reset calls, the bytes at addresses 0..FONTSET_SIZE-1 are
\* those of the glyph table.
C17_GlyphsReserved ==
    \A k \in 0 .. (FONTSET_SIZE - 1) : byte_at(ram, k) = FONTSET[k + 1]

\* The opcode is FX29.
is_FX29(op) == byte1(op) = 15 /\ byte3(op) = 2 /\ byte4(op) = 9

\* C18: when the next instruction is FX29, then for every 8-bit value v in
\* Vx the tick completes with the index register equal to v * 5, in either
\* build.
C18_GlyphAddress ==
    (process = "running" /\ CanFetch /\ is_FX29(CurrentOp)) =>
        \A v \in 0 .. (U8 - 1), checked \in BOOLEAN :
            LET m == tick([State EXCEPT !.v_reg[byte2(CurrentOp)] = v], 0, checked)
            IN  m.process = "running" /\ m.i_reg = v * 5

\* The conditional skips, and the condition of the one about to execute:
\* key Vx is pressed when Vx is the index of a key and that key is down.
is_skip(op) ==
    \/ byte1(op) \in {3, 4}
    \/ byte1(op) \in {5, 9} /\ byte4(op) = 0
    \/ byte1(op) = 14 /\ <<byte3(op), byte4(op)>> \in {<<9, 14>>, <<10, 1>>}

key_pressed(m, k) == k \in DOMAIN m.keys /\ m.keys[k]

skip_condition(m, op) ==
    LET vx == m.v_reg[byte2(op)]
        vy == m.v_reg[byte3(op)]
        kk == op % 256
    IN  CASE byte1(op) = 3 -> vx = kk
          [] byte1(op) = 4 -> vx # kk
          [] byte1(op) = 5 -> vx = vy
          [] byte1(op) = 9 -> vx # vy
          [] byte1(op) = 14 /\ byte3(op) = 9 -> key_pressed(m, vx)
          [] byte1(op) = 14 /\ byte3(op) = 10 -> ~key_pressed(m, vx)

\* C19: when the next instruction is 3XKK, 4XKK, 5XY0, 9XY0, EX9E or EXA1,
\* then for every 8-bit value in Vx the tick ends with pc = old pc + 4 if
\* the instruction's condition holds and pc = old pc + 2 if it does not,
\* and with every other part of the machine as it was.
C19_SkipForEveryRegister ==
    (process = "running" /\ CanFetch /\ is_skip(CurrentOp)) =>
        \A v \in 0 .. (U8 - 1), checked \in BOOLEAN :
            LET before == [State EXCEPT !.v_reg[byte2(CurrentOp)] = v]
            IN  tick(before, 0, checked) =
                    [before EXCEPT !.pc = IF skip_condition(before, CurrentOp)
                                          THEN pc + 4 ELSE pc + 2]

\* C19 amended: when the next instruction is 3XKK, 4XKK, 5XY0, 9XY0, EX9E
\* or EXA1, then for every 8-bit value in Vx the tick ends with
\* pc = old pc + 4 if the instruction's condition holds and pc = old pc + 2
\* if it does not, and with every other part of the machine as it was,
\* except that EX9E and EXA1 with Vx >= NUM_KEYS index keys out of range:
\* that tick panics, with pc = old pc + 2.
C19_SkipOrFatalKeyIndex ==
    (process = "running" /\ CanFetch /\ is_skip(CurrentOp)) =>
        \A v \in 0 .. (U8 - 1), checked \in BOOLEAN :
            LET before == [State EXCEPT !.v_reg[byte2(CurrentOp)] = v]
            IN  IF byte1(CurrentOp) = 14 /\ v >= NUM_KEYS
                THEN tick(before, 0, checked) =
                        [before EXCEPT !.pc = pc + 2, !.process = "panic"]
                ELSE tick(before, 0, checked) =
                        [before EXCEPT !.pc = IF skip_condition(before, CurrentOp)
                                              THEN pc + 4 ELSE pc + 2]

\* ProgSkip has skipped the no-op at 206: V0 = 01 at 3001 is the only way
\* to 208 with V0 = 01.
C19_Witness ==
    /\ process = "running"
    /\ pc = \h208
    /\ byte_at(ram, \h204) * 256 + byte_at(ram, \h205) = \h3001
    /\ v_reg[0] = 1

\* C20: in every reachable state, tick_timers, keypress (any key, either
\* way) and load (an image that fits) leave every display cell as it is;
\* a tick on an opcode other than 00E0 and DXYN leaves every display cell as
\* it is, in either build and whatever the random byte; and a tick on 00E0
\* completes with every one of the SCREEN_WIDTH * SCREEN_HEIGHT cells off.
C20_DisplayWriters ==
    process = "running" =>
        /\ tick_timers(State).screen = screen
        /\ \A index \in 0 .. (NUM_KEYS - 1), pressed \in BOOLEAN :
              keypress(State, index, pressed).screen = screen
        /\ \A data \in {<< >>, ShortImage, ProgScreen} : load(State, data).screen = screen
        /\ CanFetch =>
              \A rnd \in RandomBytes, checked \in BOOLEAN :
                  LET m == tick(State, rnd, checked)
                  IN  IF CurrentOp = \h00E0
                      THEN /\ m.process = "running"
                           /\ \A c \in 0 .. (SCREEN_WIDTH * SCREEN_HEIGHT - 1) :
                                 ~pixel(m.screen, c)
                      ELSE is_DXYN(CurrentOp) \/ m.screen = screen

\* ProgScreen has run to its end: VF = 1 says the second draw met pixels of
\* the first, the instructions between left them for 00E0 to clear, and the
\* display is blank.
C20_Witness ==
    /\ process = "running"
    /\ pc = \h238
    /\ v_reg[15] = 1 /\ v_reg[1] = 2 /\ stack = << >> /\ i_reg = \h300
    /\ screen = {}

=============================================================================
